---- MODULE Spec2Model ----
(***************************************************************************)
(* Model of the two options-chain pipelines of the repository.             *)
(*   Pipeline A: src/oc.py          (brokerage backed, Alpaca + yfinance)  *)
(*   Pipeline B: src/yf_ochains.py  (Yahoo Finance backed)                 *)
(*                                                                         *)
(* Encoding of Python values.  Numbers are integers.  Prices supplied by   *)
(* a provider are even integers (one unit = half a cent) so that the       *)
(* float division (bid + ask) / 2 is exact.  Python's None, the float NaN  *)
(* and a missing attribute (getattr default) are the three sentinels       *)
(* NoneV, NaN and Absent below; Raise stands for a provider call that      *)
(* raises an exception.                                                    *)
(***************************************************************************)
EXTENDS Integers, Sequences, FiniteSets, TLC

NoneV == 0 - 1000
NaN == 0 - 1001
Absent == 0 - 1002
Raise == 0 - 1003

IsNum(x) == x \notin {NoneV, NaN, Absent, Raise}

\* Python truthiness of a number-or-None value: None and 0 are falsy,
\* NaN is truthy.
Truthy(x) == x # NoneV /\ x # 0

\* Python `a or b`
PyOr(a, b) == IF Truthy(a) THEN a ELSE b

\* getattr(obj, name, default) on an attribute that may be missing
GetAttr(v, default) == IF v = Absent THEN default ELSE v

\* int(v) / astype(int) of an integral number: the value itself
AsInt(v) == v

Min(a, b) == IF a <= b THEN a ELSE b

(***************************************************************************)
(* Bounds of the model.                                                    *)
(***************************************************************************)
NumTickers == 2
MaxPages == 3

(***************************************************************************)
(* Program constants.                                                      *)
(***************************************************************************)
FallbackPrice == 90
SnapshotCap == 50
BatchSize == 20

VARIABLES
    pc,             \* position of the orchestrator / per-ticker pipeline
    tIdx,           \* index of the ticker being processed (1-based)
    called,         \* tickers for which the per-ticker pipeline was invoked
    csvs,           \* tickers whose CSV was written, in order
    noData,         \* tickers logged as "no data"
    yf_fast,        \* provider: fast_info.last_price outcome
    yf_hist,        \* provider: history(period="1d")["Close"].iloc[-1] outcome
    strike_pct,     \* strike window in tenths (0.1 -> 1, 0.3 -> 3)
    price,          \* [value, site, hist_called] result of get_current_price_yf
    req,            \* GetOptionContractsRequest: [strike_low, strike_high, page_token]
    page_token,     \* local variable page_token (0 = None)
    all_contracts,  \* accumulated contracts
    reqLog,         \* page_token carried by each discovery request issued
    respLog,        \* each discovery response: [shape, first, n, token]
    symbols,        \* symbols kept for snapshot enrichment
    all_snaps,      \* dict symbol -> snapshot
    batchLog,       \* each snapshot request: [start, syms, ok]
    bi,             \* loop variable i of the batching loop
    rows,           \* rows of the returned DataFrame
    yf_options,     \* provider: stock.options, [raises, dates]
    yf_cols,        \* provider: columns of the calls / puts frames
    tod,            \* time of day of datetime.now(), in ticks
    expirations,    \* local variable expirations
    eIdx,           \* position of the expiration loop (1-based)
    fetchLog,       \* each stock.option_chain call: [exp, kind]
    all_options,    \* frames appended so far
    df              \* DataFrame returned by get_option_chain

orchVars == <<tIdx, called, csvs, noData>>
priceVars == <<yf_fast, yf_hist, strike_pct, price>>
discVars == <<req, page_token, all_contracts, reqLog, respLog>>
snapVars == <<symbols, all_snaps, batchLog, bi>>

aVars == <<priceVars, discVars, snapVars, rows>>
bVars == <<yf_options, yf_cols, tod, expirations, eIdx, fetchLog, all_options, df>>

vars == <<pc, orchVars, aVars, bVars>>

EmptyFn == [x \in {} |-> 0]

(***************************************************************************)
(* get_current_price_yf  (src/oc.py 19-29)                                 *)
(***************************************************************************)
GetCurrentPriceYfNoFallback(fast, hist) ==
    IF fast = Raise \/ fast = NoneV \/ (fast # NaN /\ fast <= 0)
    THEN [value |-> FallbackPrice, site |-> "except", hist_called |-> FALSE]
    ELSE [value |-> fast, site |-> "fast", hist_called |-> FALSE]

\* fast: outcome of ticker_obj.fast_info.last_price (Raise, NoneV, NaN or a
\* number); hist: outcome of the daily-close lookup (Raise when history is
\* empty or the call fails, else the last close, possibly NaN).
GetCurrentPriceYf(fast, hist) ==
    IF fast = Raise
    THEN [value |-> FallbackPrice, site |-> "except", hist_called |-> FALSE]
    ELSE IF fast = NoneV \/ (fast # NaN /\ fast <= 0)
         THEN IF hist = Raise
              THEN [value |-> FallbackPrice, site |-> "except", hist_called |-> TRUE]
              ELSE [value |-> hist, site |-> "close", hist_called |-> TRUE]
         ELSE [value |-> fast, site |-> "fast", hist_called |-> FALSE]

\* strike_low = str(current_price * (1 - strike_pct)), in tenths of a unit
StrikeLow(p, pct) == IF p = NaN THEN NaN ELSE p * (10 - pct)
\* strike_high = str(current_price * (1 + strike_pct)), in tenths of a unit
StrikeHigh(p, pct) == IF p = NaN THEN NaN ELSE p * (10 + pct)

NoPrice == [value |-> 0, site |-> "none", hist_called |-> FALSE]
NoReq == [strike_low |-> 0, strike_high |-> 0, page_token |-> 0]

(***************************************************************************)
(* Provider data of Pipeline A.  A contract is identified by its symbol,   *)
(* the position of the contract in the provider's listing (symbols are     *)
(* unique); the attributes of contracts and snapshots cycle through        *)
(* representative values.                                                  *)
(***************************************************************************)
\* contract.volume / contract.open_interest as getattr sees them
ContractVolumes == <<Absent, NoneV, 0, 7, 0 - 1>>
ContractOIs == <<NoneV, 12, Absent>>

ContractOf(s) ==
    [symbol |-> s,
     volume |-> ContractVolumes[(s % Len(ContractVolumes)) + 1],
     open_interest |-> ContractOIs[(s % Len(ContractOIs)) + 1]]

Snap(q, b, a, t, tp, iv, v, oi) ==
    [has_quote |-> q, bid_price |-> b, ask_price |-> a, has_trade |-> t,
     trade_price |-> tp, implied_volatility |-> iv, volume |-> v,
     open_interest |-> oi]

\* The snapshots the provider holds; has = FALSE: the provider returns no
\* snapshot for the symbol.  A snapshot's latest_quote / latest_trade may be
\* None (has_quote / has_trade FALSE), its prices and implied_volatility
\* may be None; its volume / open_interest attributes are missing (the
\* getattr default applies) or numbers.
SnapKinds ==
    << [has |-> TRUE,  snap |-> Snap(TRUE, 2, 4, TRUE, 4, 3, Absent, Absent)],
       [has |-> FALSE, snap |-> Snap(FALSE, 0, 0, FALSE, 0, 0, Absent, Absent)],
       [has |-> TRUE,  snap |-> Snap(FALSE, 0, 0, FALSE, 0, NoneV, Absent, 5)],
       [has |-> TRUE,  snap |-> Snap(TRUE, NoneV, 6, TRUE, NoneV, 1, 9, Absent)],
       [has |-> TRUE,  snap |-> Snap(TRUE, 0, 0, TRUE, 2, 0, 0, 0)],
       [has |-> TRUE,  snap |-> Snap(TRUE, 0 - 2, 0 - 4, FALSE, 0, 2, 0 - 3, 0 - 1)],
       [has |-> TRUE,  snap |-> Snap(TRUE, 0 - 2, 8, TRUE, 6, 2, Absent, Absent)] >>

SnapKindOf(s) == SnapKinds[(s % Len(SnapKinds)) + 1]

\* option_client.get_option_snapshot(batch) when it does not raise
SnapshotResponse(batch) ==
    LET have == {batch[k] : k \in {j \in 1..Len(batch) : SnapKindOf(batch[j]).has}}
    IN  [s \in have |-> SnapKindOf(s).snap]

PageSizes == {0, 1, 20, 25}

\* The continuation token of a page is the provider's cursor: the listing
\* position at which the next page starts.
NextCursor(first, n) == first + n

\* The listing position a request carrying cursor c is served from
\* (no cursor: the start of the listing).
PageStart(c) == IF c = 0 THEN 1 ELSE c

\* contracts.option_contracts of a page that starts at listing position first
PageContracts(first, n) == [k \in 1..n |-> ContractOf(first + k - 1)]

(***************************************************************************)
(* get_options_chain_snapshot  (src/oc.py 31-119)                          *)
(***************************************************************************)
\* dict.update
DictUpdate(d, e) ==
    [s \in (DOMAIN d) \cup (DOMAIN e) |-> IF s \in DOMAIN e THEN e[s] ELSE d[s]]

\* symbols = [c.symbol for c in all_contracts[:50]]
CapSymbols(cs) == [k \in 1..Min(Len(cs), SnapshotCap) |-> cs[k].symbol]

\* batch = symbols[i:i + 20]
BatchOf(syms, i) == [k \in 1..(Min(i + BatchSize, Len(syms)) - i) |-> syms[i + k]]

\* 'mid_price': (bid + ask) / 2 if bid > 0 or ask > 0 else 0.0
MidPriceA(bid, ask) == IF bid > 0 \/ ask > 0 THEN (bid + ask) \div 2 ELSE 0

\* body of `for contract in all_contracts` (lines 85-113)
MakeRow(contract, snaps) ==
    LET found == contract.symbol \in DOMAIN snaps
        snap == snaps[contract.symbol]
        bid == IF found /\ snap.has_quote THEN PyOr(snap.bid_price, 0) ELSE 0
        ask == IF found /\ snap.has_quote THEN PyOr(snap.ask_price, 0) ELSE 0
        last == IF found /\ snap.has_trade THEN PyOr(snap.trade_price, 0) ELSE 0
        volume == IF found
                  THEN PyOr(GetAttr(contract.volume, 0), GetAttr(snap.volume, 0))
                  ELSE 0
        oi == IF found
              THEN PyOr(GetAttr(contract.open_interest, 0),
                        GetAttr(snap.open_interest, 0))
              ELSE 0
        iv == IF found THEN GetAttr(snap.implied_volatility, 0) ELSE 0
    IN  [option_code |-> contract.symbol,
         bid |-> bid,
         ask |-> ask,
         last_price |-> last,
         mid_price |-> MidPriceA(bid, ask),
         volume |-> AsInt(volume),
         open_interest |-> AsInt(oi),
         iv |-> iv]

AssembleDataCapped(cs, snaps) ==
    [k \in 1..Min(Len(cs), SnapshotCap) |-> MakeRow(cs[k], snaps)]

\* for contract in all_contracts: data.append({...})
AssembleData(cs, snaps) == [k \in 1..Len(cs) |-> MakeRow(cs[k], snaps)]

\* The per-ticker locals as they are before get_options_chain_snapshot runs.
ResetLocals ==
    /\ price' = NoPrice
    /\ req' = NoReq
    /\ page_token' = 0
    /\ all_contracts' = <<>>
    /\ reqLog' = <<>>
    /\ respLog' = <<>>
    /\ symbols' = <<>>
    /\ all_snaps' = EmptyFn
    /\ batchLog' = <<>>
    /\ bi' = 0
    /\ rows' = <<>>

InitPipelineA ==
    /\ pc = "loop"
    /\ tIdx = 1
    /\ called = {}
    /\ csvs = <<>>
    /\ noData = {}
    /\ yf_fast = 0
    /\ yf_hist = 0
    /\ price = NoPrice
    /\ req = NoReq
    /\ page_token = 0
    /\ all_contracts = <<>>
    /\ reqLog = <<>>
    /\ respLog = <<>>
    /\ symbols = <<>>
    /\ all_snaps = EmptyFn
    /\ batchLog = <<>>
    /\ bi = 0
    /\ rows = <<>>

EmptyFrame == [cols |-> {}, rows |-> <<>>]

InitPipelineB ==
    /\ yf_options = [raises |-> FALSE, dates |-> <<>>]
    /\ yf_cols = {}
    /\ tod = 0
    /\ expirations = <<>>
    /\ eIdx = 1
    /\ fetchLog = <<>>
    /\ all_options = <<>>
    /\ df = EmptyFrame

\* fetch_multiple_tickers: `for ticker in ticker_list` enters the body and
\* calls get_options_chain_snapshot; the provider's price state for this
\* ticker is drawn here.
StartTicker(FastSet, HistSet) ==
    /\ pc = "loop"
    /\ tIdx <= NumTickers
    /\ pc' = "price"
    /\ called' = called \cup {tIdx}
    /\ \E f \in FastSet, h \in HistSet :
          /\ yf_fast' = f
          /\ yf_hist' = h
    /\ ResetLocals
    /\ UNCHANGED <<tIdx, csvs, noData, strike_pct>>
    /\ UNCHANGED bVars

\* fetch_multiple_tickers: the for loop is exhausted.
EndLoop ==
    /\ pc = "loop"
    /\ tIdx > NumTickers
    /\ pc' = "finished"
    /\ UNCHANGED <<orchVars, aVars, bVars>>

\* current_price = get_current_price_yf(ticker)
GetPrice ==
    /\ pc = "price"
    /\ price' = GetCurrentPriceYf(yf_fast, yf_hist)
    /\ pc' = "request"
    /\ UNCHANGED <<orchVars, yf_fast, yf_hist, strike_pct, discVars, snapVars, rows>>
    /\ UNCHANGED bVars

\* strike_low / strike_high / req = GetOptionContractsRequest(...)
BuildRequest ==
    /\ pc = "request"
    /\ req' = [strike_low |-> StrikeLow(price.value, strike_pct),
               strike_high |-> StrikeHigh(price.value, strike_pct),
               page_token |-> 0]
    /\ page_token' = 0
    /\ all_contracts' = <<>>
    /\ pc' = "discover"
    /\ UNCHANGED <<orchVars, priceVars, reqLog, respLog, snapVars, rows>>
    /\ UNCHANGED bVars

CarriedTokenFirstOnly(tok, r) == IF r.page_token # 0 THEN r.page_token ELSE tok

\* `if page_token: req.page_token = page_token`
CarriedToken(tok, r) == IF tok # 0 THEN tok ELSE r.page_token

\* all_contracts.extend(contracts.option_contracts)
Extend(cs, page) == cs \o page

\* One iteration of `while True` (lines 50-63) whose provider call returns.
\* A tuple result carries a token (0: None) when the provider has more
\* pages, a bare result carries none.
\* When the loop breaks, lines 65-70 run: an empty list returns an empty
\* DataFrame, otherwise the symbols of the first 50 contracts are kept.
DiscoverPage ==
    /\ pc = "discover"
    /\ \E shape \in {"tuple", "bare"}, n \in PageSizes, more \in BOOLEAN :
          LET carried == CarriedToken(page_token, req)
              first == PageStart(carried)
              tok == IF more THEN NextCursor(first, n) ELSE 0
              newtok == IF shape = "tuple" THEN tok ELSE 0
              acc == Extend(all_contracts, PageContracts(first, n))
          IN  /\ shape = "bare" => ~more
              /\ Len(respLog) + 1 >= MaxPages => newtok = 0
              /\ req' = [req EXCEPT !.page_token = carried]
              /\ reqLog' = Append(reqLog, carried)
              /\ respLog' = Append(respLog, [shape |-> shape, first |-> first,
                                            n |-> n, token |-> newtok])
              /\ page_token' = newtok
              /\ all_contracts' = acc
              /\ IF newtok # 0
                 THEN /\ pc' = "discover"
                      /\ UNCHANGED symbols
                 ELSE IF acc = <<>>
                      THEN /\ pc' = "returned"
                           /\ UNCHANGED symbols
                      ELSE /\ pc' = "snapshots"
                           /\ symbols' = CapSymbols(acc)
    /\ all_snaps' = EmptyFn
    /\ bi' = 0
    /\ UNCHANGED <<orchVars, priceVars, batchLog, rows>>
    /\ UNCHANGED bVars

\* trading_client.get_option_contracts(req) raises: nothing catches it in
\* get_options_chain_snapshot nor in fetch_multiple_tickers.
DiscoverRaises ==
    /\ pc = "discover"
    /\ reqLog' = Append(reqLog, CarriedToken(page_token, req))
    /\ req' = [req EXCEPT !.page_token = CarriedToken(page_token, req)]
    /\ pc' = "aborted"
    /\ UNCHANGED <<orchVars, priceVars, page_token, all_contracts, respLog,
                   snapVars, rows>>
    /\ UNCHANGED bVars

SnapsAfterDropping(snaps, ok, resp) == IF ok THEN DictUpdate(snaps, resp) ELSE EmptyFn

\* all_snaps after a batch request: updated on success, left alone on failure
SnapsAfter(snaps, ok, resp) == IF ok THEN DictUpdate(snaps, resp) ELSE snaps

\* next value of i in `for i in range(0, len(symbols), 20)`
NextBatchStart(i) == i + BatchSize

\* One iteration of the batching loop (lines 72-78).
SnapshotBatch ==
    /\ pc = "snapshots"
    /\ bi < Len(symbols)
    /\ \E ok \in BOOLEAN :
          LET batch == BatchOf(symbols, bi)
              resp == IF ok THEN SnapshotResponse(batch) ELSE EmptyFn
          IN  /\ all_snaps' = SnapsAfter(all_snaps, ok, resp)
              /\ batchLog' = Append(batchLog, [start |-> bi, syms |-> batch,
                                              ok |-> ok])
    /\ bi' = NextBatchStart(bi)
    /\ UNCHANGED <<pc, orchVars, priceVars, discVars, symbols, rows>>
    /\ UNCHANGED bVars

\* Lines 80-119: the row loop and the returned DataFrame.
AssembleRows ==
    /\ pc = "snapshots"
    /\ bi >= Len(symbols)
    /\ rows' = AssembleData(all_contracts, all_snaps)
    /\ pc' = "returned"
    /\ UNCHANGED <<orchVars, priceVars, discVars, snapVars>>
    /\ UNCHANGED bVars

\* fetch_multiple_tickers lines 126-132: an empty frame is logged and
\* skipped, any other is written to a CSV file.
Orchestrate ==
    /\ pc = "returned"
    /\ IF rows = <<>>
       THEN /\ noData' = noData \cup {tIdx}
            /\ UNCHANGED csvs
       ELSE /\ csvs' = Append(csvs, tIdx)
            /\ UNCHANGED noData
    /\ tIdx' = tIdx + 1
    /\ pc' = "loop"
    /\ UNCHANGED <<called, priceVars, discVars, snapVars, rows>>
    /\ UNCHANGED bVars

FastA == {100, Raise}
HistA == {Raise}

InitA ==
    /\ InitPipelineA
    /\ InitPipelineB
    /\ strike_pct = 3

NextA ==
    \/ StartTicker(FastA, HistA)
    \/ GetPrice
    \/ BuildRequest
    \/ DiscoverPage
    \/ DiscoverRaises
    \/ SnapshotBatch
    \/ AssembleRows
    \/ Orchestrate
    \/ EndLoop

SpecA == InitA /\ [][NextA]_vars

(***************************************************************************)
(* The price oracle and the strike window on their own, over every         *)
(* provider behaviour.                                                     *)
(***************************************************************************)
FastAll == {Raise, NoneV, NaN, 0 - 10, 0, 50, 90, 100}
HistAll == {Raise, NaN, 0 - 10, 0, 50, 90, 100}

InitPrice ==
    /\ InitPipelineA
    /\ InitPipelineB
    /\ strike_pct \in {1, 3}

NextPrice ==
    \/ StartTicker(FastAll, HistAll)
    \/ GetPrice
    \/ BuildRequest

SpecPrice == InitPrice /\ [][NextPrice]_vars

(***************************************************************************)
(* Pipeline B: YahooOptionsChainFetcher.get_option_chain and               *)
(* run_multi_ticker_scrape  (src/yf_ochains.py)                            *)
(*                                                                         *)
(* Dates are day offsets from today; a datetime is a number of ticks,      *)
(* TicksPerDay ticks a day, today at midnight being tick 0.                *)
(***************************************************************************)
MaxExpiryDays == 45
TicksPerDay == 4

\* The columns of the provider's calls / puts frames the pipeline reads,
\* and one it does not.
NativeCols == {"contractSymbol", "strike", "bid", "ask", "lastPrice",
               "volume", "openInterest", "impliedVolatility"}
OtherNativeCols == {"change"}

\* the `columns` list of lines 77-82
CanonicalCols == {"ticker", "option_code", "strike", "exp_date", "type",
                  "bid", "ask", "last_price", "mid_price", "volume",
                  "open_interest", "iv", "timestamp", "snapshot_date"}

\* options.rename(columns={...})
RenameCol(c) ==
    CASE c = "contractSymbol" -> "option_code"
      [] c = "lastPrice" -> "last_price"
      [] c = "openInterest" -> "open_interest"
      [] c = "impliedVolatility" -> "iv"
      [] OTHER -> c

\* Representative rows of a provider frame.
NativeRow(k, b, a, lp, v, oi, iv) ==
    [strike |-> k, bid |-> b, ask |-> a, lastPrice |-> lp, volume |-> v,
     openInterest |-> oi, impliedVolatility |-> iv]

RowKindsB ==
    << NativeRow(100, 2, 4, 4, 5, 7, 3),
       NativeRow(100, 0, 0, 0, NaN, NaN, NaN),
       NativeRow(NaN, 2, 2, 2, 1, 1, 1),
       NativeRow(110, NaN, 4, NaN, 0, 0, 0),
       NativeRow(90, 0 - 2, 0, 2, 0 - 1, 0 - 2, 1) >>

FetchKinds == 1..Len(RowKindsB)

\* The lists of expiration dates the provider reports.
ExpLists == { <<>>, <<5, 40, 50>>, <<45, 46>>, <<46, 0 - 1, 45>>, <<50>>,
              <<5, 40, 45>> }

\* The column sets of a provider response: complete, or lacking one column.
ColSets == {NativeCols \cup OtherNativeCols}
             \cup {(NativeCols \cup OtherNativeCols) \ {c} : c \in NativeCols}

\* value of a column of a provider row, Absent when the frame lacks it
Cell(cols, c, v) == IF c \in cols THEN v ELSE Absent

\* float addition and division by two with NaN
MidPriceB(bid, ask) == IF bid = NaN \/ ask = NaN THEN NaN ELSE (bid + ask) \div 2

\* One provider row after lines 54-75: type and exp_date tagged, columns
\* renamed, mid_price derived.  code identifies the contract.
CanonRow(cols, nr, code, typ, exp) ==
    [option_code |-> Cell(cols, "contractSymbol", code),
     strike |-> Cell(cols, "strike", nr.strike),
     exp_date |-> exp,
     type |-> typ,
     bid |-> Cell(cols, "bid", nr.bid),
     ask |-> Cell(cols, "ask", nr.ask),
     last_price |-> Cell(cols, "lastPrice", nr.lastPrice),
     mid_price |-> MidPriceB(nr.bid, nr.ask),
     volume |-> Cell(cols, "volume", nr.volume),
     open_interest |-> Cell(cols, "openInterest", nr.openInterest),
     iv |-> Cell(cols, "impliedVolatility", nr.impliedVolatility)]

\* available_cols = [c for c in columns if c in options.columns]
AvailableCols(present) == CanonicalCols \cap present

\* Body of the try of lines 49-89 once stock.option_chain(exp) returned a
\* chain whose calls frame holds row kind k and whose puts frame holds the
\* next kind.  options["bid"] / options["ask"] raise KeyError when the
\* column is missing: ok = FALSE, the except of line 91 skips the expiration.
ProcessExpiration(cols, k, exp) ==
    LET kp == (k % Len(RowKindsB)) + 1
        present == {RenameCol(c) : c \in cols}
                      \cup {"type", "exp_date", "ticker", "timestamp",
                            "snapshot_date", "mid_price"}
    IN  IF "bid" \notin cols \/ "ask" \notin cols
        THEN [ok |-> FALSE, frame |-> EmptyFrame]
        ELSE [ok |-> TRUE,
              frame |-> [cols |-> AvailableCols(present),
                         rows |-> << CanonRow(cols, RowKindsB[k], exp * 10 + 1, "CALL", exp),
                                     CanonRow(cols, RowKindsB[kp], exp * 10 + 2, "PUT", exp) >>]]

\* d <= cutoff_date for a date d (midnight of day d) and
\* cutoff_date = datetime.now() + timedelta(days=h)
WithinHorizon(d, h, t) == d * TicksPerDay <= t + h * TicksPerDay

\* lines 37-42
FilterExpirations(exps, h, t) ==
    IF h = NoneV THEN exps
    ELSE SelectSeq(exps, LAMBDA d : WithinHorizon(d, h, t))

RECURSIVE ConcatFrames(_, _)
\* pd.concat(all_options, ignore_index=True) over the first k frames
ConcatFrames(fs, k) ==
    IF k = 0 THEN EmptyFrame
    ELSE LET prev == ConcatFrames(fs, k - 1)
         IN  [cols |-> prev.cols \cup fs[k].cols,
              rows |-> prev.rows \o fs[k].rows]

\* fillna(0)
FillNa(v) == IF v = NaN THEN 0 ELSE v

\* lines 100-103 applied to one row
PostRow(r) ==
    [r EXCEPT !.iv = FillNa(r.iv),
              !.volume = AsInt(FillNa(r.volume)),
              !.open_interest = AsInt(FillNa(r.open_interest))]

\* Lines 95-113.  A column missing from df makes dropna / df[...] raise
\* KeyError, which the except of line 111 turns into an empty DataFrame.
PostProcess(fs) ==
    IF fs = <<>>
    THEN EmptyFrame
    ELSE LET cat == ConcatFrames(fs, Len(fs))
             kept == SelectSeq(cat.rows, LAMBDA r : r.strike # NaN)
         IN  IF {"strike", "iv", "volume", "open_interest"} \subseteq cat.cols
             THEN [cols |-> cat.cols,
                   rows |-> [k \in 1..Len(kept) |-> PostRow(kept[k])]]
             ELSE EmptyFrame

\* run_multi_ticker_scrape: `for ticker in TICKERS` enters the body and
\* calls get_option_chain; the provider's state for this ticker is drawn.
StartTickerB ==
    /\ pc = "loop"
    /\ tIdx <= NumTickers
    /\ pc' = "options"
    /\ called' = called \cup {tIdx}
    /\ yf_options' \in [raises : {FALSE}, dates : ExpLists]
                       \cup {[raises |-> TRUE, dates |-> <<>>]}
    /\ yf_cols' \in ColSets
    /\ tod' \in {0, TicksPerDay - 1}
    /\ expirations' = <<>>
    /\ eIdx' = 1
    /\ fetchLog' = <<>>
    /\ all_options' = <<>>
    /\ df' = EmptyFrame
    /\ UNCHANGED <<tIdx, csvs, noData, aVars>>

\* Lines 30-46: enumerate the expirations and filter them.
EnumerateExpirations ==
    /\ pc = "options"
    /\ IF yf_options.raises \/ yf_options.dates = <<>>
       THEN /\ pc' = "returned"
            /\ UNCHANGED expirations
       ELSE /\ expirations' = FilterExpirations(yf_options.dates, MaxExpiryDays, tod)
            /\ pc' = "fetch"
    /\ eIdx' = 1
    /\ all_options' = <<>>
    /\ df' = EmptyFrame
    /\ UNCHANGED <<orchVars, aVars, yf_options, yf_cols, tod, fetchLog>>

\* all_options after one iteration of the expiration loop
AfterFetch(acc, res) == IF res.ok THEN Append(acc, res.frame) ELSE acc

\* One iteration of `for exp_date in expirations` (lines 48-93); kind 0 is
\* stock.option_chain raising.
FetchExpiration ==
    /\ pc = "fetch"
    /\ eIdx <= Len(expirations)
    /\ \E k \in FetchKinds \cup {0} :
          LET exp == expirations[eIdx]
              res == IF k = 0 THEN [ok |-> FALSE, frame |-> EmptyFrame]
                     ELSE ProcessExpiration(yf_cols, k, exp)
          IN  /\ fetchLog' = Append(fetchLog, [exp |-> exp, kind |-> k])
              /\ all_options' = AfterFetch(all_options, res)
    /\ eIdx' = eIdx + 1
    /\ UNCHANGED <<pc, orchVars, aVars, yf_options, yf_cols, tod, expirations, df>>

\* Lines 95-113, after the loop.
FinishChain ==
    /\ pc = "fetch"
    /\ eIdx > Len(expirations)
    /\ df' = PostProcess(all_options)
    /\ pc' = "returned"
    /\ UNCHANGED <<orchVars, aVars, yf_options, yf_cols, tod, expirations, eIdx,
                   fetchLog, all_options>>

\* run_multi_ticker_scrape lines 155-163: a non-empty frame is saved, an
\* empty one is logged.
OrchestrateB ==
    /\ pc = "returned"
    /\ IF df.rows # <<>>
       THEN /\ csvs' = Append(csvs, tIdx)
            /\ UNCHANGED noData
       ELSE /\ noData' = noData \cup {tIdx}
            /\ UNCHANGED csvs
    /\ tIdx' = tIdx + 1
    /\ pc' = "loop"
    /\ UNCHANGED <<called, aVars, bVars>>

InitB ==
    /\ InitPipelineA
    /\ InitPipelineB
    /\ strike_pct = 3

NextB ==
    \/ StartTickerB
    \/ EnumerateExpirations
    \/ FetchExpiration
    \/ FinishChain
    \/ OrchestrateB
    \/ EndLoop

SpecB == InitB /\ [][NextB]_vars

(***************************************************************************)
(* Properties of Pipeline A.                                               *)
(***************************************************************************)
RECURSIVE ConcatPages(_, _)
\* the pages of the first k responses, one after the other
ConcatPages(log, k) ==
    IF k = 0 THEN <<>>
    ELSE ConcatPages(log, k - 1) \o PageContracts(log[k].first, log[k].n)

\* C2: every discovery request after the first carries the token of the
\* response just before it, the first carries none; only the last response
\* may be token-less and no request follows it; the accumulated list is the
\* concatenation of the pages in page order, which is the provider's listing
\* with nothing lost, duplicated or reordered.
C2_Pagination ==
    /\ Len(reqLog) >= 1 => reqLog[1] = 0
    /\ \A k \in 2..Len(reqLog) : reqLog[k] = respLog[k - 1].token
    /\ \A k \in 1..(Len(respLog) - 1) : respLog[k].token # 0
    /\ Len(reqLog) = Len(respLog) + (IF pc = "aborted" THEN 1 ELSE 0)
    /\ (Len(respLog) >= 1 /\ respLog[Len(respLog)].token = 0) => pc # "discover"
    /\ all_contracts = ConcatPages(respLog, Len(respLog))
    /\ \A k \in 1..Len(all_contracts) : all_contracts[k].symbol = k

C2_Witness ==
    /\ Len(respLog) = 3
    /\ \A k \in 1..3 : respLog[k].n > 0
    /\ respLog[3].shape = "bare"
    /\ pc = "snapshots"
    /\ Len(all_contracts) = 46

CeilDiv(a, b) == (a + b - 1) \div b

Market(r) == <<r.bid, r.ask, r.last_price, r.mid_price, r.volume,
               r.open_interest, r.iv>>
ZeroMarket == <<0, 0, 0, 0, 0, 0, 0>>

\* C3: the batches are the consecutive slices of at most 20 of the first
\* min(n, 50) symbols, each requested once; when enrichment is over there
\* are ceil(min(n, 50) / 20) requests; the row of a contract depends on the
\* outcome of its own batch only: zero market fields when that batch
\* raised, the fields of its own batch's response otherwise.
C3_Batching ==
    LET n == Len(all_contracts)
        m == Min(n, SnapshotCap)
    IN  /\ \A k \in 1..Len(batchLog) :
             /\ batchLog[k].start = (k - 1) * BatchSize
             /\ Len(batchLog[k].syms) = Min(BatchSize, m - batchLog[k].start)
             /\ Len(batchLog[k].syms) >= 1
             /\ \A j \in 1..Len(batchLog[k].syms) :
                   batchLog[k].syms[j] = all_contracts[batchLog[k].start + j].symbol
        /\ Len(batchLog) <= CeilDiv(m, BatchSize)
        /\ (pc = "returned" /\ n > 0) =>
             /\ Len(batchLog) = CeilDiv(m, BatchSize)
             /\ n = 45 => Len(batchLog) = 3
             /\ \A i \in 1..m :
                   LET b == batchLog[((i - 1) \div BatchSize) + 1]
                   IN  /\ i <= Len(rows)
                       /\ Market(rows[i]) =
                            IF b.ok
                            THEN Market(MakeRow(all_contracts[i], SnapshotResponse(b.syms)))
                            ELSE ZeroMarket

C3_Witness ==
    /\ pc = "returned"
    /\ Len(all_contracts) = 45
    /\ Len(batchLog) = 3
    /\ batchLog[1].ok /\ ~batchLog[2].ok /\ batchLog[3].ok
    /\ Market(rows[7]) # ZeroMarket
    /\ Market(rows[21]) = ZeroMarket
    /\ Market(rows[42]) # ZeroMarket

\* C4: when get_options_chain_snapshot returns there is exactly one row per
\* discovered contract, in discovery order, and a contract without a
\* snapshot (failed batch, none held by the provider, or beyond the first
\* 50) has all market fields zero.
C4_RowPerContract ==
    pc = "returned" =>
        /\ Len(rows) = Len(all_contracts)
        /\ \A i \in 1..Len(all_contracts) :
              /\ rows[i].option_code = all_contracts[i].symbol
              /\ ( \/ i > SnapshotCap
                   \/ ~batchLog[((i - 1) \div BatchSize) + 1].ok
                   \/ ~SnapKindOf(all_contracts[i].symbol).has
                   \/ all_contracts[i].symbol \notin DOMAIN all_snaps )
                 => Market(rows[i]) = ZeroMarket

C4_Witness ==
    /\ pc = "returned"
    /\ Len(all_contracts) = 51
    /\ Len(rows) = 51
    /\ ~batchLog[1].ok /\ batchLog[2].ok
    /\ Market(rows[1]) = ZeroMarket
    /\ Market(rows[51]) = ZeroMarket
    /\ Market(rows[21]) # ZeroMarket

\* C5 (Pipeline A): whenever fetch_multiple_tickers has ended, normally or
\* by an exception, every ticker of the list has been processed.
C5_NoFatalError ==
    pc \in {"finished", "aborted"} => called = 1..NumTickers

PriceDone == pc \in {"request", "discover"}

\* C6: a missing or non-positive fast price invokes the daily-close lookup
\* and its value is returned; the except branch (90.0) is taken exactly
\* when a lookup raised; a positive fast price is returned without the
\* daily-close lookup.
C6_PriceOrder ==
    PriceDone =>
        /\ price.site \in {"fast", "close", "except"}
        /\ (yf_fast = NoneV \/ (IsNum(yf_fast) /\ yf_fast <= 0)) =>
              /\ price.hist_called
              /\ yf_hist # Raise => (price.value = yf_hist /\ price.site = "close")
        /\ price.site = "except" <=>
              (yf_fast = Raise \/ (price.hist_called /\ yf_hist = Raise))
        /\ price.site = "except" => price.value = FallbackPrice
        /\ (IsNum(yf_fast) /\ yf_fast > 0) =>
              (price.value = yf_fast /\ ~price.hist_called /\ price.site = "fast")

C6_Witness ==
    /\ PriceDone
    /\ yf_fast = 0
    /\ yf_hist = 50
    /\ price.value = 50
    /\ price.hist_called

\* C7: the price returned is a positive number and the strike window given
\* to contract discovery has positive bounds with lower <= upper.
C7_PositivePrice ==
    pc = "discover" =>
        /\ IsNum(price.value) /\ price.value > 0
        /\ IsNum(req.strike_low) /\ req.strike_low > 0
        /\ IsNum(req.strike_high) /\ req.strike_high > 0
        /\ req.strike_low <= req.strike_high

(***************************************************************************)
(* Properties of Pipeline B and of the rows of both pipelines.             *)
(***************************************************************************)
Positive(x) == IsNum(x) /\ x > 0

\* (bid + ask) / 2 when bid > 0 or ask > 0, else 0
SpecMid(bid, ask) ==
    IF Positive(bid) \/ Positive(ask)
    THEN (IF bid = NaN \/ ask = NaN THEN NaN ELSE (bid + ask) \div 2)
    ELSE 0

\* C1: every emitted row of either pipeline has mid_price = (bid + ask) / 2
\* when bid > 0 or ask > 0, and mid_price = 0 otherwise.
C1_MidPrice ==
    /\ \A i \in 1..Len(rows) : rows[i].mid_price = SpecMid(rows[i].bid, rows[i].ask)
    /\ \A i \in 1..Len(df.rows) :
          df.rows[i].mid_price = SpecMid(df.rows[i].bid, df.rows[i].ask)

\* C8: every emitted row of either pipeline has volume >= 0 and
\* open_interest >= 0, both integers.
C8_NonNegativeCounts ==
    /\ \A i \in 1..Len(rows) :
          /\ IsNum(rows[i].volume) /\ rows[i].volume >= 0
          /\ IsNum(rows[i].open_interest) /\ rows[i].open_interest >= 0
    /\ \A i \in 1..Len(df.rows) :
          /\ IsNum(df.rows[i].volume) /\ df.rows[i].volume >= 0
          /\ IsNum(df.rows[i].open_interest) /\ df.rows[i].open_interest >= 0

\* position of expiration e in the retained list (0 when absent)
ExpPos(e) ==
    IF \E k \in 1..Len(expirations) : expirations[k] = e
    THEN CHOOSE k \in 1..Len(expirations) : expirations[k] = e
    ELSE 0

\* the expirations whose stock.option_chain call did not raise
FetchedOk == {fetchLog[k].exp : k \in {j \in 1..Len(fetchLog) : fetchLog[j].kind # 0}}

\* the expirations that have rows in the returned frame
Contributing == {df.rows[i].exp_date : i \in 1..Len(df.rows)}

Enumerated == ~yf_options.raises /\ yf_options.dates # <<>>

\* The filter and the order of the expiration loop: an expiration is
\* retained iff it is at most MaxExpiryDays days after today, and the
\* retained ones are fetched in the provider's order.
RetainedInOrder ==
    /\ (pc \in {"fetch", "returned"} /\ Enumerated) =>
          expirations = SelectSeq(yf_options.dates, LAMBDA d : d <= MaxExpiryDays)
    /\ Len(fetchLog) <= Len(expirations)
    /\ \A k \in 1..Len(fetchLog) : fetchLog[k].exp = expirations[k]

\* C9: an expiration is fetched iff it is at most MaxExpiryDays days after
\* today, the retained ones are processed in the provider's order, and
\* every retained expiration whose fetch did not raise contributes its rows
\* to the result, in that order.
C9_Expirations ==
    /\ RetainedInOrder
    /\ pc = "returned" =>
          /\ Len(fetchLog) = Len(expirations)
          /\ Contributing = FetchedOk
          /\ \A i, j \in 1..Len(df.rows) :
                i <= j => ExpPos(df.rows[i].exp_date) <= ExpPos(df.rows[j].exp_date)

\* the canonical columns a response with the native columns cols yields
ExpectedCols(cols) ==
    {"ticker", "exp_date", "type", "timestamp", "snapshot_date"}
       \cup {RenameCol(c) : c \in cols \cap NativeCols}
       \cup (IF {"bid", "ask"} \subseteq cols THEN {"mid_price"} ELSE {})

\* C10: when the provider's response lacks one canonical column, the
\* returned frame has exactly the canonical columns that are present and
\* every expiration that was fetched still has its rows.
C10_MissingColumn ==
    (pc = "returned" /\ Cardinality(NativeCols \ yf_cols) = 1 /\ FetchedOk # {}) =>
        /\ df.cols = ExpectedCols(yf_cols)
        /\ Contributing = FetchedOk

====
